---- MODULE Spec2Model ----
(***************************************************************************)
(* Model of the data-quality and anomaly core of liquidity_monitor:        *)
(*   src/quality_checks.py     DataQualityChecker                          *)
(*   src/anomaly_detection.py  AnomalyDetector                             *)
(*                                                                         *)
(* Conventions                                                             *)
(*   - Python floats are modelled by exact rationals <<n, d>> in lowest    *)
(*     terms with d > 0; float('inf') is the pair <<1, 0>>.                *)
(*   - Instants are whole hours since an arbitrary epoch, timezone-naive.  *)
(*   - A cell is [k |-> kind, v |-> Int]:  "null" (None / NaN / NaT),      *)
(*     "num" (a number), "iso" (the ISO-8601 text of instant v), "bad"     *)
(*     (a text that pd.to_datetime cannot parse), "ts" (a native           *)
(*     timestamp of instant v).                                            *)
(*   - A table (DataFrame) is [columns, dtypes, index, rows]: the column   *)
(*     names in order, the dtype of each column, the row labels and the    *)
(*     rows.  A source name is a sequence of characters, so that lower()   *)
(*     and the substring test of generate_quality_report are computed.     *)
(***************************************************************************)
EXTENDS Integers, Sequences, FiniteSets, TLC

VARIABLES
    data_dict,      \* the caller's mapping source name -> table, passed to the core
    now,            \* the instant datetime.now() returns
    std_threshold,  \* AnomalyDetector.std_threshold
    business_rules, \* the caller's rules mapping, passed to detect_business_rule_violations
    result,         \* the last call: operation, arguments, outcome, return value
    written         \* the files the last call wrote under quality_report_path

vars == <<data_dict, now, std_threshold, business_rules, result, written>>

----------------------------------------------------------------------------
(* Bounds of the model *)

MaxRows == 2

MaxClock == 2

TickHours == 12

MaxSeries == 4

MaxRules == 3

(* Program constants *)

DefaultMaxAgeHours == 24

----------------------------------------------------------------------------
(* Exact arithmetic standing for Python floats *)

Abs(x) == IF x < 0 THEN -x ELSE x

RECURSIVE GCD(_, _)
GCD(a, b) == IF b = 0 THEN a ELSE GCD(b, a % b)

Rat(n, d) ==
    IF d = 0 THEN <<1, 0>>
    ELSE LET g == GCD(Abs(n), Abs(d))
             s == IF d < 0 THEN -1 ELSE 1
         IN  <<(s * n) \div g, (s * d) \div g>>

Inf == <<1, 0>>

IsInf(x) == x[2] = 0

RInt(n) == <<n, 1>>

RAdd(x, y) == Rat(x[1] * y[2] + y[1] * x[2], x[2] * y[2])

RSub(x, y) ==
    IF IsInf(y) THEN <<-1, 0>> ELSE Rat(x[1] * y[2] - y[1] * x[2], x[2] * y[2])

RMul(x, y) == Rat(x[1] * y[1], x[2] * y[2])

RDiv(x, y) == IF IsInf(x) THEN Inf ELSE Rat(x[1] * y[2], x[2] * y[1])

\* x <= y, also for the infinities <<1, 0>> and <<-1, 0>>
RLe(x, y) ==
    IF x[2] = 0 THEN (x[1] < 0 \/ (y[2] = 0 /\ y[1] > 0))
    ELSE IF y[2] = 0 THEN y[1] > 0
    ELSE x[1] * y[2] <= y[1] * x[2]

RLt(x, y) == RLe(x, y) /\ x # y

RMax(x, y) == IF RLe(x, y) THEN y ELSE x

RECURSIVE RSum(_)
RSum(s) == IF s = <<>> THEN RInt(0) ELSE RAdd(s[1], RSum(Tail(s)))

----------------------------------------------------------------------------
(* Cells, tables (pandas DataFrame) and the pandas operations used *)

NullCell == [k |-> "null", v |-> 0]

Num(n) == [k |-> "num", v |-> n]

Iso(t) == [k |-> "iso", v |-> t]

Ts(t) == [k |-> "ts", v |-> t]

\* The text of instant t written month first, "%m/%d/%Y %H:%M".  Instant 0 is
\* the first instant of a year: the text of a negative instant starts with
\* "12/31/" and that of the others with "01/01/"
Mdy(t) == [k |-> "mdy", v |-> t]

BadText == [k |-> "bad", v |-> 0]

\* The decimal number v / 10 as read from text (0.1, 0.7, ...): no binary fraction
\* unless v is a multiple of 5, so float64 holds it rounded
Dec(v) == [k |-> "dec", v |-> v]

\* The number a numeric cell holds
CellValue(c) == IF c.k = "dec" THEN Rat(c.v, 10) ELSE RInt(c.v)

IsNull(c) == c.k = "null"

\* The dtypes select_dtypes(include=[np.number]) keeps
NumericDtypes == {"float64", "int64", "float32", "int32"}

\* df.empty: no rows or no columns
Empty(df) == Len(df.rows) = 0 \/ Len(df.columns) = 0

HasColumn(df, col) == \E i \in 1..Len(df.columns) : df.columns[i] = col

\* df[column] as the sequence of its cells, in row order
Column(df, col) == [i \in 1..Len(df.rows) |-> df.rows[i][col]]

\* df[column].isnull().sum()
NullCount(df, col) == Cardinality({i \in 1..Len(df.rows) : IsNull(df.rows[i][col])})

\* pd.to_datetime(series): raises on a text it cannot parse, maps null to NaT
CanParse(cells) == \A i \in 1..Len(cells) : cells[i].k \in {"null", "iso", "mdy", "ts"}

ToDatetime(cells) ==
    [i \in 1..Len(cells) |-> IF IsNull(cells[i]) THEN NullCell ELSE Ts(cells[i].v)]

\* df[col] = series: the assignment replaces the column of the caller's table
SetColumn(df, col, cells, dtype) ==
    [df EXCEPT !.dtypes = [df.dtypes EXCEPT ![col] = dtype],
               !.rows = [i \in 1..Len(df.rows) |-> [df.rows[i] EXCEPT ![col] = cells[i]]]]

\* series.max() of a datetime series: NaT when every value is null
MaxInstant(cells) ==
    LET S == {cells[i].v : i \in {j \in 1..Len(cells) : ~IsNull(cells[j])}}
    IN  IF S = {} THEN NullCell
        ELSE Ts(CHOOSE m \in S : \A x \in S : x <= m)

\* df.duplicated(subset=None).sum(): rows equal to an earlier row
DuplicatedCount(df) ==
    Cardinality({i \in 1..Len(df.rows) : \E j \in 1..(i - 1) : df.rows[j] = df.rows[i]})

----------------------------------------------------------------------------
(* DataQualityChecker *)

NoneVal == <<>>

\* check_completeness(df, required_columns)
CheckCompletenessMissingAsNull(df, required_columns) ==
    LET missing == SelectSeq(required_columns, LAMBDA c : ~HasColumn(df, c))
        cols == {df.columns[i] : i \in 1..Len(df.columns)}
        total_values == Len(df.rows) * (Len(df.columns) + Len(missing))
        total_missing == RSum([i \in 1..Len(df.columns) |-> RInt(NullCount(df, df.columns[i]))])[1]
                         + Len(df.rows) * Len(missing)
    IN  [completeness_score |-> RSub(RInt(1), Rat(total_missing, total_values)),
         missing_columns |-> missing,
         missing_values_by_column |->
            [c \in cols |-> [count |-> NullCount(df, c),
                             percentage |-> RMul(Rat(NullCount(df, c), Len(df.rows)), RInt(100))]],
         total_missing_percentage |-> RMul(Rat(total_missing, total_values), RInt(100))]

CheckCompleteness(df, required_columns) ==
    IF Empty(df)
    THEN [completeness_score |-> RInt(0),
          missing_columns |-> required_columns,
          missing_values_by_column |-> [c \in {} |-> NoneVal],
          total_missing_percentage |-> RInt(100)]
    ELSE LET missing_columns == SelectSeq(required_columns, LAMBDA c : ~HasColumn(df, c))
             missing_count == [c \in {df.columns[i] : i \in 1..Len(df.columns)} |->
                                  NullCount(df, c)]
             total_values == Len(df.rows) * Len(df.columns)
             total_missing ==
                RSum([i \in 1..Len(df.columns) |-> RInt(missing_count[df.columns[i]])])[1]
         IN  [completeness_score |-> RSub(RInt(1), Rat(total_missing, total_values)),
              missing_columns |-> missing_columns,
              missing_values_by_column |->
                 [c \in DOMAIN missing_count |->
                     [count |-> missing_count[c],
                      percentage |-> RMul(Rat(missing_count[c], Len(df.rows)), RInt(100))]],
              total_missing_percentage |-> RMul(Rat(total_missing, total_values), RInt(100))]

FreshnessDefaults ==
    [is_fresh |-> FALSE, latest_date |-> NoneVal, age_hours |-> NoneVal,
     freshness_score |-> RInt(0)]

\* The age of the latest timestamp at current_time, in hours (inf for NaT)
AgeHours(latest_date, current_time) ==
    IF IsNull(latest_date) THEN Inf ELSE RInt(current_time - latest_date.v)

FreshnessScoreFlat(age_hours, max_age_hours) ==
    IF RLe(age_hours, RInt(max_age_hours)) THEN RInt(1) ELSE RInt(0)

\* max(0.0, 1.0 - age_hours / (max_age_hours * 2))
FreshnessScore(age_hours, max_age_hours) ==
    RMax(RInt(0), RSub(RInt(1), RDiv(age_hours, RInt(max_age_hours * 2))))

\* check_freshness(df, date_column, max_age_hours) called at current_time:
\* the pair of its return value and of the caller's table after the call
CheckFreshness(df, date_column, max_age_hours, current_time) ==
    IF Empty(df) \/ ~HasColumn(df, date_column)
    THEN [ret |-> FreshnessDefaults, df |-> df]
    ELSE IF ~CanParse(Column(df, date_column))
    THEN [ret |-> FreshnessDefaults, df |-> df]
    ELSE LET converted == SetColumn(df, date_column, ToDatetime(Column(df, date_column)),
                                    "datetime64")
             latest_date == MaxInstant(Column(converted, date_column))
             age_hours == AgeHours(latest_date, current_time)
         IN  IF max_age_hours = 0  \* ZeroDivisionError, caught by the handler
             THEN [ret |-> FreshnessDefaults, df |-> converted]
             ELSE [ret |-> [is_fresh |-> RLe(age_hours, RInt(max_age_hours)),
                            latest_date |-> IF IsNull(latest_date) THEN NoneVal
                                            ELSE Iso(latest_date.v),
                            age_hours |-> IF IsInf(age_hours) THEN NoneVal ELSE age_hours,
                            freshness_score |-> FreshnessScore(age_hours, max_age_hours)],
                   df |-> converted]

\* check_duplicates(df, subset_columns=None)
CheckDuplicates(df) ==
    IF Empty(df)
    THEN [duplicate_count |-> 0, duplicate_percentage |-> RInt(0), has_duplicates |-> FALSE]
    ELSE LET duplicate_count == DuplicatedCount(df)
         IN  [duplicate_count |-> duplicate_count,
              duplicate_percentage |-> RMul(Rat(duplicate_count, Len(df.rows)), RInt(100)),
              has_duplicates |-> duplicate_count > 0]

\* source_name.lower() and the substring test `sub in text`
UpperCase == <<"A", "B", "C", "D", "E", "F", "G", "H", "I", "J", "K", "L", "M",
               "N", "O", "P", "Q", "R", "S", "T", "U", "V", "W", "X", "Y", "Z">>

LowerCase == <<"a", "b", "c", "d", "e", "f", "g", "h", "i", "j", "k", "l", "m",
               "n", "o", "p", "q", "r", "s", "t", "u", "v", "w", "x", "y", "z">>

\* str.lower() of one character
LowerChar ==
    [c \in {UpperCase[j] : j \in 1..26} \cup {LowerCase[j] : j \in 1..26} \cup {"_"} |->
        IF \E j \in 1..26 : UpperCase[j] = c
        THEN LowerCase[CHOOSE j \in 1..26 : UpperCase[j] = c]
        ELSE c]

Lower(text) == [i \in 1..Len(text) |-> LowerChar[text[i]]]

Contains(sub, text) ==
    \E i \in 0..(Len(text) - Len(sub)) : SubSeq(text, i + 1, i + Len(sub)) = sub

RequiredColumnsOfEcb(source_name, df) == <<"date", "rate_type", "value">>

\* The required columns generate_quality_report selects from the source name
RequiredColumns(source_name, df) ==
    IF Contains(<<"e", "c", "b">>, Lower(source_name))
    THEN <<"date", "rate_type", "value">>
    ELSE IF Contains(<<"m", "a", "r", "k", "e", "t">>, Lower(source_name))
    THEN <<"date", "instrument", "close">>
    ELSE df.columns

QualityScoreEqualWeights(completeness, freshness, duplicates) ==
    RMul(RAdd(RAdd(completeness.completeness_score, freshness.freshness_score),
              RSub(RInt(1), RDiv(duplicates.duplicate_percentage, RInt(100)))),
         Rat(1, 3))

\* completeness * 0.4 + freshness * 0.4 + (1.0 - duplicate_percentage / 100) * 0.2
QualityScore(completeness, freshness, duplicates) ==
    RAdd(RAdd(RMul(completeness.completeness_score, Rat(4, 10)),
              RMul(freshness.freshness_score, Rat(4, 10))),
         RMul(RSub(RInt(1), RDiv(duplicates.duplicate_percentage, RInt(100))), Rat(2, 10)))

\* One iteration of the loop of generate_quality_report: the source's entry
\* and the caller's table after it
SourceQuality(source_name, df, current_time) ==
    IF Empty(df)
    THEN LET fresh == CheckFreshness(df, "date", DefaultMaxAgeHours, current_time)
         IN  [source_report |->
                 [record_count |-> 0,
                  completeness |-> CheckCompleteness(df, <<>>),
                  freshness |-> fresh.ret,
                  duplicates |-> CheckDuplicates(fresh.df),
                  quality_score |-> RInt(0)],
              df |-> fresh.df]
    ELSE LET completeness == CheckCompleteness(df, RequiredColumns(source_name, df))
             fresh == CheckFreshness(df, "date", DefaultMaxAgeHours, current_time)
             duplicates == CheckDuplicates(fresh.df)
         IN  [source_report |->
                 [record_count |-> Len(df.rows),
                  completeness |-> completeness,
                  freshness |-> fresh.ret,
                  duplicates |-> duplicates,
                  quality_score |-> QualityScore(completeness, fresh.ret, duplicates)],
              df |-> fresh.df]

RECURSIVE SumOver(_, _)
SumOver(f, S) ==
    IF S = {} THEN RInt(0)
    ELSE LET x == CHOOSE y \in S : TRUE
         IN  RAdd(f[x], SumOver(f, S \ {x}))

OverallScoreNonEmptyOnly(sources) ==
    LET S == {n \in DOMAIN sources : sources[n].record_count > 0}
    IN  IF S = {} THEN RInt(0)
        ELSE RDiv(SumOver([n \in S |-> sources[n].quality_score], S), RInt(Cardinality(S)))

\* float(np.mean(source_scores)) when there is a score, else the initial 0.0
OverallScore(sources) ==
    IF DOMAIN sources = {} THEN RInt(0)
    ELSE RDiv(SumOver([n \in DOMAIN sources |-> sources[n].quality_score], DOMAIN sources),
              RInt(Cardinality(DOMAIN sources)))

\* generate_quality_report(data_dict) at timestamp, up to the saving of the
\* report: the report built and the caller's tables after the loop
QualityRun(dd, timestamp) ==
    LET per == [n \in DOMAIN dd |-> SourceQuality(n, dd[n], timestamp)]
        sources == [n \in DOMAIN dd |-> per[n].source_report]
    IN  [report |-> [timestamp |-> timestamp,
                     sources |-> sources,
                     overall_score |-> OverallScore(sources)],
         data_dict |-> [n \in DOMAIN dd |-> per[n].df]]

ReportFileFixedName(report) == [name |-> 0, content |-> report]

\* The file generate_quality_report writes: quality_report_<timestamp>.json
ReportFile(report) == [name |-> report.timestamp, content |-> report]

----------------------------------------------------------------------------
(* AnomalyDetector.detect_statistical_outliers *)

DefaultStdThreshold == 3

\* df[column] as a labelled series: the row label and the cell of each row
Series(df, col) == [i \in 1..Len(df.rows) |-> [label |-> df.index[i], cell |-> df.rows[i][col]]]

\* series.dropna(): the non-null entries, labels kept
DropNa(series) == SelectSeq(series, LAMBDA e : ~IsNull(e.cell))

\* values.mean(), in exact arithmetic
Mean(values) ==
    RDiv(RSum([i \in 1..Len(values) |-> CellValue(values[i].cell)]), RInt(Len(values)))

\* values.std() squared (ddof = 1), in exact arithmetic; NaN, here <<0, 0>>, for
\* a single value
Variance(values) ==
    IF Len(values) < 2 THEN <<0, 0>>
    ELSE LET m == Mean(values)
             d(i) == RSub(CellValue(values[i].cell), m)
         IN  RDiv(RSum([i \in 1..Len(values) |-> RMul(d(i), d(i))]), RInt(Len(values) - 1))

\* float64 arithmetic, where it departs from the exact one: 0.1 + 0.1 + 0.1 is
\* rounded to 0.30000000000000004 and its third to 0.10000000000000002, so
\* values.mean() of three values 0.1 is not 0.1 (likewise for 0.2 and 0.7, and for
\* six such values; the sums of 2, 4 and 5 of them are exact)
MeanIsRounded(values) ==
    /\ Len(values) \in {3, 6}
    /\ \A i \in 1..Len(values) : values[i].cell.k = "dec" /\ values[i].cell.v \in {1, 2, 7}

\* A column of equal values whose computed mean carries a rounding error e: every
\* deviation is e, so std_val = |e| * sqrt(n / (n - 1)) is positive and every
\* Z-score is sqrt((n - 1) / n)
RoundedConstant(values) == MeanIsRounded(values) /\ Variance(values) = RInt(0)

\* std_val > 0 (False for NaN)
StdPositive(values) ==
    \/ RoundedConstant(values)
    \/ LET variance == Variance(values) IN variance[2] # 0 /\ variance[1] > 0

\* z_scores = np.abs((values - mean_val) / std_val), squared: ((v - mean) / std)^2
\* for every entry of the null-dropped series
ZScoresSquared(values) ==
    IF RoundedConstant(values)
    THEN [i \in 1..Len(values) |-> Rat(Len(values) - 1, Len(values))]
    ELSE LET mean_val == Mean(values)
             variance == Variance(values)
             d(i) == RSub(CellValue(values[i].cell), mean_val)
         IN  [i \in 1..Len(values) |-> RDiv(RMul(d(i), d(i)), variance)]

\* z > threshold, decided on the squares
ExceedsInclusive(zsq, threshold) ==
    RLt(threshold, RInt(0)) \/ RLe(RMul(threshold, threshold), zsq)

Exceeds(zsq, threshold) ==
    RLt(threshold, RInt(0)) \/ RLt(RMul(threshold, threshold), zsq)

\* np.where(z_scores > threshold)[0]: 0-based positions in the null-dropped series
OutlierPositions(values, threshold) ==
    LET z_scores == ZScoresSquared(values)
        R[i \in 0..Len(values)] ==
            IF i = 0 THEN <<>>
            ELSE IF Exceeds(z_scores[i], threshold) THEN Append(R[i - 1], i - 1)
            ELSE R[i - 1]
    IN  R[Len(values)]

NoOutliers == [count |-> 0, percentage |-> RInt(0), outlier_values |-> <<>>, z_scores |-> <<>>]

\* A position among outlier_indices is the label of no entry of the series
LabelMissing(values, outlier_indices) ==
    \E k \in 1..Len(outlier_indices) :
        \A i \in 1..Len(values) : values[i].label # outlier_indices[k]

\* z_scores[outlier_indices] selects by row LABEL on the integer-labelled series:
\* a position that is no label of the null-dropped series raises KeyError
ColumnFails(values, threshold) ==
    StdPositive(values) /\ LabelMissing(values, OutlierPositions(values, threshold))

\* The entry of one scanned column with at least one non-null value.  The field
\* z_scores holds the squares of the Z-scores: that of the entry LABELLED p for
\* every outlier position p.  The handler turns a failure into the empty entry.
ColumnOutliers(values, threshold) ==
    IF ~StdPositive(values) THEN NoOutliers
    ELSE LET outlier_indices == OutlierPositions(values, threshold)
             z_scores == ZScoresSquared(values)
             at(p) == CHOOSE i \in 1..Len(values) : values[i].label = p
         IN  IF LabelMissing(values, outlier_indices) THEN NoOutliers
             ELSE [count |-> Len(outlier_indices),
                   percentage |-> RMul(Rat(Len(outlier_indices), Len(values)), RInt(100)),
                   outlier_values |-> [k \in 1..Len(outlier_indices) |->
                                          CellValue(values[outlier_indices[k] + 1].cell)],
                   z_scores |-> [k \in 1..Len(outlier_indices) |->
                                    z_scores[at(outlier_indices[k])]]]

\* The columns detect_statistical_outliers reports: requested, present, of dtype
\* float64 or int64, with a non-null value
ScannedColumns(df, numeric_columns) ==
    {c \in {numeric_columns[i] : i \in 1..Len(numeric_columns)} :
        /\ HasColumn(df, c)
        /\ df.dtypes[c] \in {"float64", "int64"}
        /\ Len(DropNa(Series(df, c))) > 0}

DetectStatisticalOutliersAborting(df, numeric_columns, threshold) ==
    LET scanned == ScannedColumns(df, numeric_columns)
        failed == \E c \in scanned : ColumnFails(DropNa(Series(df, c)), threshold)
    IN  [c \in (IF failed THEN {} ELSE scanned) |->
            ColumnOutliers(DropNa(Series(df, c)), threshold)]

\* detect_statistical_outliers(df, numeric_columns) of a detector with the given
\* threshold
DetectStatisticalOutliers(df, numeric_columns, threshold) ==
    [c \in ScannedColumns(df, numeric_columns) |->
        ColumnOutliers(DropNa(Series(df, c)), threshold)]

----------------------------------------------------------------------------
(* AnomalyDetector.detect_temporal_anomalies *)

EmptyTemporal == [gaps |-> <<>>, sudden_changes |-> <<>>]

\* The order of two month-first texts, character by character: those of
\* January before those of December of the year before
MdyBefore(a, b) ==
    IF (a.v < 0) = (b.v < 0) THEN a.v < b.v ELSE b.v < 0

\* The order sort_values gives raw cells: nulls last; ISO texts and timestamps
\* by instant; month-first texts as texts
CellBefore(a, b) ==
    IF IsNull(a) THEN FALSE
    ELSE IF IsNull(b) THEN TRUE
    ELSE IF a.k = "bad" \/ b.k = "bad" THEN (a.k # "bad" /\ b.k = "bad")
    ELSE IF a.k = "mdy" \/ b.k = "mdy"
    THEN (IF a.k = b.k THEN MdyBefore(a, b) ELSE a.k = "mdy")
    ELSE a.v < b.v

\* df.sort_values(col): the row positions of df in sorted order (stable)
RECURSIVE InsertSorted(_, _, _, _)
InsertSorted(df, col, order, i) ==
    IF order = <<>> THEN <<i>>
    ELSE IF CellBefore(df.rows[i][col], df.rows[order[Len(order)]][col])
    THEN Append(InsertSorted(df, col, SubSeq(order, 1, Len(order) - 1), i), order[Len(order)])
    ELSE Append(order, i)

SortOrder(df, col) ==
    LET R[n \in 0..Len(df.rows)] ==
            IF n = 0 THEN <<>> ELSE InsertSorted(df, col, R[n - 1], n)
    IN  R[Len(df.rows)]

SortValues(df, col) ==
    LET order == SortOrder(df, col)
    IN  [columns |-> df.columns,
         dtypes  |-> df.dtypes,
         index   |-> [i \in 1..Len(order) |-> df.index[order[i]]],
         rows    |-> [i \in 1..Len(order) |-> df.rows[order[i]]]]

\* A sequence of rationals in ascending order
RECURSIVE SortRats(_)
SortRats(s) ==
    IF s = <<>> THEN <<>>
    ELSE LET k == CHOOSE i \in 1..Len(s) : \A j \in 1..Len(s) : RLe(s[i], s[j])
         IN  <<s[k]>> \o SortRats(SubSeq(s, 1, k - 1) \o SubSeq(s, k + 1, Len(s)))

\* series.diff() of the parsed dates at 1-based position i: NoneVal stands for NaT
TimeDiff(dates, i) ==
    IF i = 1 \/ IsNull(dates[i]) \/ IsNull(dates[i - 1]) THEN NoneVal
    ELSE RInt(dates[i].v - dates[i - 1].v)

\* time_diffs.median(): the median of the non-null deltas, NoneVal when there is none
MedianDiff(dates) ==
    LET known == SelectSeq([i \in 1..Len(dates) |-> TimeDiff(dates, i)],
                           LAMBDA d : d # NoneVal)
        sorted == SortRats(known)
        m == Len(sorted)
    IN  IF m = 0 THEN NoneVal
        ELSE IF m % 2 = 1 THEN sorted[(m + 1) \div 2]
        ELSE RDiv(RAdd(sorted[m \div 2], sorted[m \div 2 + 1]), RInt(2))

GapFactor == 3

IsGapInclusive(diff, median_diff) ==
    diff # NoneVal /\ median_diff # NoneVal /\ RLe(RMul(median_diff, RInt(GapFactor)), diff)

\* pd.notna(diff) and diff > median_diff * 3
IsGap(diff, median_diff) ==
    diff # NoneVal /\ median_diff # NoneVal /\ RLt(RMul(median_diff, RInt(GapFactor)), diff)

\* The gaps of the date-sorted, parsed frame; index is the 0-based position
Gaps(df_sorted, date_column) ==
    LET dates == Column(df_sorted, date_column)
        median_diff == MedianDiff(dates)
        R[n \in 0..Len(dates)] ==
            IF n = 0 THEN <<>>
            ELSE IF IsGap(TimeDiff(dates, n), median_diff)
            THEN Append(R[n - 1], [index |-> n - 1,
                                   gap_duration |-> TimeDiff(dates, n),
                                   date_before |-> Iso(dates[n - 1].v),
                                   date_after |-> Iso(dates[n].v)])
            ELSE R[n - 1]
    IN  IF Len(dates) > 1 THEN R[Len(dates)] ELSE <<>>

\* values.pct_change().abs() at 1-based position i >= 2
PctChange(values, i) ==
    LET prev == CellValue(values[i - 1].cell)
        cur == CellValue(values[i].cell)
        diff == RSub(cur, prev)
    IN  IF prev = RInt(0) THEN (IF cur = RInt(0) THEN <<0, 0>> ELSE Inf)
        ELSE Rat(Abs(diff[1] * prev[2]), Abs(diff[2] * prev[1]))

\* pct_changes.quantile(0.95): linear interpolation between the order statistics
\* around the virtual index 0.95 * (m - 1)
Quantile95(changes) ==
    LET sorted == SortRats(changes)
        m == Len(sorted)
        lo == (19 * (m - 1)) \div 20
        frac == RSub(Rat(19 * (m - 1), 20), RInt(lo))
        hi == IF lo + 2 <= m THEN lo + 2 ELSE m
    IN  RAdd(sorted[lo + 1], RMul(RSub(sorted[hi], sorted[lo + 1]), frac))

\* The sudden changes of the null-dropped value series (labels kept).  quantile
\* skips the NaN changes; an infinite change makes the threshold infinite or NaN,
\* and no change exceeds it.  The loop indexes values.iloc with the row LABEL idx
\* of each extreme change; ok is FALSE when a label is out of the positional
\* range (IndexError).
SuddenChanges(values) ==
    LET n == Len(values)
        changes == [i \in 1..(n - 1) |-> PctChange(values, i + 1)]
        known == SelectSeq(changes, LAMBDA c : c # <<0, 0>>)
        threshold == IF known = <<>> \/ \E k \in 1..Len(known) : IsInf(known[k])
                     THEN Inf ELSE Quantile95(known)
        extreme == {i \in 2..n : /\ changes[i - 1] # <<0, 0>>
                                 /\ RLt(threshold, changes[i - 1])}
        R[i \in 0..n] ==
            IF i = 0 THEN <<>>
            ELSE IF i \in extreme
            THEN LET idx == values[i].label
                 IN  Append(R[i - 1],
                            [index |-> idx,
                             percentage_change |-> RMul(changes[i - 1], RInt(100)),
                             value_before |-> IF idx > 0 /\ idx - 1 < n
                                              THEN CellValue(values[idx].cell) ELSE NoneVal,
                             value_after |-> IF idx >= 0 /\ idx < n
                                             THEN CellValue(values[idx + 1].cell) ELSE NoneVal])
            ELSE R[i - 1]
    IN  IF n > 1
        THEN [ok |-> \A i \in extreme : values[i].label >= 0 /\ values[i].label < n,
              list |-> R[n]]
        ELSE [ok |-> TRUE, list |-> <<>>]

\* The sudden-change part of detect_temporal_anomalies on the sorted frame; ok is
\* FALSE when it raises (pct_change of texts raises TypeError)
SuddenChangesOf(df_sorted, value_column) ==
    IF ~HasColumn(df_sorted, value_column) THEN [ok |-> TRUE, list |-> <<>>]
    ELSE LET values == DropNa(Series(df_sorted, value_column))
         IN  IF df_sorted.dtypes[value_column] \notin NumericDtypes
             THEN [ok |-> Len(values) <= 1, list |-> <<>>]
             ELSE SuddenChanges(values)

\* df.sort_values(date_column) with its date column parsed by pd.to_datetime
SortedParsed(df, date_column) ==
    LET sorted == SortValues(df, date_column)
    IN  SetColumn(sorted, date_column, ToDatetime(Column(sorted, date_column)), "datetime64")

\* Something raises inside the try block: a date that does not parse, or the
\* sudden-change computation
TemporalFails(df, date_column, value_column) ==
    \/ ~CanParse(Column(df, date_column))
    \/ ~SuddenChangesOf(SortedParsed(df, date_column), value_column).ok

DetectTemporalAnomaliesKeepingGaps(df, date_column, value_column) ==
    IF Empty(df) \/ ~HasColumn(df, date_column) THEN EmptyTemporal
    ELSE IF ~CanParse(Column(df, date_column)) THEN EmptyTemporal
    ELSE LET df_sorted == SortedParsed(df, date_column)
             sudden == SuddenChangesOf(df_sorted, value_column)
         IN  [gaps |-> Gaps(df_sorted, date_column),
              sudden_changes |-> IF sudden.ok THEN sudden.list ELSE <<>>]

\* detect_temporal_anomalies(df, date_column, value_column); any failure inside
\* the try block gives the empty result
DetectTemporalAnomalies(df, date_column, value_column) ==
    IF Empty(df) \/ ~HasColumn(df, date_column) THEN EmptyTemporal
    ELSE IF TemporalFails(df, date_column, value_column) THEN EmptyTemporal
    ELSE LET df_sorted == SortedParsed(df, date_column)
         IN  [gaps |-> Gaps(df_sorted, date_column),
              sudden_changes |-> SuddenChangesOf(df_sorted, value_column).list]

----------------------------------------------------------------------------
(* AnomalyDetector.detect_business_rule_violations and generate_anomaly_report *)

\* An optional rule parameter: <<>> when the key is absent (get gives None),
\* <<x>> when it is x
Absent == <<>>

Given(x) == <<x>>

\* The default rules of generate_anomaly_report; a rules mapping is the sequence
\* of its items (name, config) in the order rules.items() yields them
BusinessRules ==
    <<[name |-> "rate_positive",
       config |-> [column |-> Given("value"), type |-> Given("range"),
                   min |-> Given(0), max |-> Given(100)]],
      [name |-> "price_not_null",
       config |-> [column |-> Given("close"), type |-> Given("not_null"),
                   min |-> Absent, max |-> Absent]]>>

\* column not in df.columns is False: the rule is evaluated
RuleApplies(df, rule_config) ==
    rule_config.column # Absent /\ HasColumn(df, rule_config.column[1])

\* The rule gets an entry in the result: its column is in the table and its
\* type is one of the two the loop knows
RuleReported(df, rule_config) ==
    /\ RuleApplies(df, rule_config)
    /\ rule_config.type \in {Given("range"), Given("not_null")}

Percentage(count, df) ==
    IF Len(df.rows) > 0 THEN RMul(Rat(count, Len(df.rows)), RInt(100)) ELSE RInt(0)

RangeViolationsBelowOnly(df, column, min_val, max_val) ==
    Cardinality({i \in 1..Len(df.rows) :
        ~IsNull(df.rows[i][column]) /\ RLt(CellValue(df.rows[i][column]), RInt(min_val))})

\* ((df[column] < min_val) | (df[column] > max_val)).sum(): a null compares False
RangeViolations(df, column, min_val, max_val) ==
    Cardinality({i \in 1..Len(df.rows) :
        /\ ~IsNull(df.rows[i][column])
        /\ \/ RLt(CellValue(df.rows[i][column]), RInt(min_val))
           \/ RLt(RInt(max_val), CellValue(df.rows[i][column]))})

\* df[column] < min_val raises TypeError: a datetime column, or a text in an
\* object column
ComparisonFails(df, column) ==
    \/ df.dtypes[column] = "datetime64"
    \/ /\ df.dtypes[column] \notin NumericDtypes
       /\ \E i \in 1..Len(df.rows) : ~IsNull(df.rows[i][column])

\* The evaluation of the rule raises inside the try block
RuleFails(df, rule_config) ==
    /\ RuleApplies(df, rule_config)
    /\ rule_config.type = Given("range")
    /\ rule_config.min # Absent /\ rule_config.max # Absent
    /\ ComparisonFails(df, rule_config.column[1])

\* The entry of one reported rule; the handler turns a failure into the error
\* marker
EvaluateRule(df, rule_config) ==
    LET column == rule_config.column[1]
    IN  IF RuleFails(df, rule_config) THEN [type |-> "error", error |-> "TypeError"]
        ELSE IF rule_config.type = Given("range")
        THEN LET violation_count ==
                     IF rule_config.min = Absent \/ rule_config.max = Absent THEN 0
                     ELSE RangeViolations(df, column, rule_config.min[1], rule_config.max[1])
             IN  [type |-> "range_violation", count |-> violation_count,
                  percentage |-> Percentage(violation_count, df)]
        ELSE [type |-> "null_violation", count |-> NullCount(df, column),
              percentage |-> Percentage(NullCount(df, column), df)]

DetectBusinessRuleViolationsStopping(df, rules) ==
    LET V[n \in 0..Len(rules)] ==
            IF n = 0 THEN [violations |-> <<>>, stopped |-> FALSE]
            ELSE LET rule == rules[n]
                 IN  IF V[n - 1].stopped \/ ~RuleReported(df, rule.config) THEN V[n - 1]
                     ELSE [violations |->
                               (rule.name :> EvaluateRule(df, rule.config))
                                   @@ V[n - 1].violations,
                           stopped |-> RuleFails(df, rule.config)]
    IN  V[Len(rules)].violations

\* detect_business_rule_violations(df, rules): the loop over rules.items(), V[n]
\* being the dictionary `violations` after n rules
DetectBusinessRuleViolations(df, rules) ==
    LET V[n \in 0..Len(rules)] ==
            IF n = 0 THEN <<>>
            ELSE LET rule == rules[n]
                 IN  IF ~RuleReported(df, rule.config) THEN V[n - 1]
                     ELSE (rule.name :> EvaluateRule(df, rule.config)) @@ V[n - 1]
    IN  V[Len(rules)]

\* df.select_dtypes(include=[np.number]).columns.tolist()
NumericColumns(df) == SelectSeq(df.columns, LAMBDA c : df.dtypes[c] \in NumericDtypes)

AnomalySourcesAll(dd) == DOMAIN dd

\* The sources generate_anomaly_report reports: `if df.empty: continue`
AnomalySources(dd) == {n \in DOMAIN dd : ~Empty(dd[n])}

\* generate_anomaly_report(data_dict) at timestamp
AnomalyReport(dd, timestamp, threshold) ==
    [timestamp |-> timestamp,
     sources |->
        [n \in AnomalySources(dd) |->
            [statistical_outliers |->
                 DetectStatisticalOutliers(dd[n], NumericColumns(dd[n]), threshold),
             temporal_anomalies |-> DetectTemporalAnomalies(dd[n], "date", "value"),
             business_rule_violations |->
                 DetectBusinessRuleViolations(dd[n], BusinessRules)]]]

----------------------------------------------------------------------------
(* The inputs: source names, tables, arguments *)

EcbName == <<"E", "C", "B">>

MarketName == <<"m", "a", "r", "k", "e", "t">>

FxName == <<"f", "x">>

\* The clock starts at instant 0: one date lies two ticks in the past, the
\* other one tick in the future
DateCells == {NullCell, BadText, Iso(0 - 2 * TickHours), Iso(TickHours)}

ValueCells == {NullCell, Num(50)}

RowPool == [date : DateCells, value : ValueCells]

\* pd.DataFrame(): no column, no row
EmptyTable == [columns |-> <<>>, dtypes |-> <<>>, index |-> <<>>, rows |-> <<>>]

\* A table read from text: object dates, float values, row labels 0..n-1
MakeTable(rows) ==
    [columns |-> <<"date", "value">>,
     dtypes  |-> [date |-> "object", value |-> "float64"],
     index   |-> [i \in 1..Len(rows) |-> i - 1],
     rows    |-> rows]

TablesOfLen(pool, n) ==
    IF n = 0 THEN {EmptyTable} ELSE {MakeTable(rows) : rows \in [1..n -> pool]}

\* The mappings over the names S whose tables hold rows of pool, at most
\* `budget` rows in all
RECURSIVE DictsOver(_, _, _)
DictsOver(S, pool, budget) ==
    IF S = {} THEN {<<>>}
    ELSE LET n == CHOOSE x \in S : TRUE
         IN  UNION {UNION {{ (n :> t) @@ rest : rest \in DictsOver(S \ {n}, pool, budget - k)}
                           : t \in TablesOfLen(pool, k)}
                    : k \in 0..budget}

\* The mappings handed to the report generators: none, one or two sources,
\* dates that parse
ReportDomains == {{}, {MarketName}, {EcbName, FxName}}

ReportRowPool == {r \in RowPool : r.date # BadText}

DataDicts == UNION {DictsOver(S, ReportRowPool, MaxRows) : S \in ReportDomains}

\* A table without a date column
MakeValueTable(rows) ==
    [columns |-> <<"value">>,
     dtypes  |-> [value |-> "float64"],
     index   |-> [i \in 1..Len(rows) |-> i - 1],
     rows    |-> rows]

ValueTables == UNION {{MakeValueTable(rows) : rows \in [1..n -> [value : ValueCells]]}
                      : n \in 1..MaxRows}

\* The mappings holding the one table handed to a single check or detector
SingleTables == DictsOver({FxName}, RowPool, MaxRows) \cup {FxName :> t : t \in ValueTables}

RequiredLists == {<<>>, <<"date", "rate_type", "value">>}

\* The thresholds a detector is constructed with: AnomalyDetector(std_threshold=t)
Thresholds == {Rat(1, 2), RInt(1), RInt(DefaultStdThreshold)}

\* The values of the columns without nulls
OutlierCells == {Num(0), Num(1), Num(2), Num(3), Num(5)}

\* The values of the columns with nulls
NullableCells == {NullCell, Num(0), Num(1)}

DecimalCells == {NullCell, Dec(1)}

\* A table of one float column whose row labels start at `first`
MakeSeriesTable(cells, first) ==
    [columns |-> <<"value">>,
     dtypes  |-> [value |-> "float64"],
     index   |-> [i \in 1..Len(cells) |-> first + i - 1],
     rows    |-> [i \in 1..Len(cells) |-> [value |-> cells[i]]]]

\* A table of two numeric columns whose row labels start at `first`
MakeTwoColumnTable(rows, first) ==
    [columns |-> <<"value", "close">>,
     dtypes  |-> [value |-> "float64", close |-> "int64"],
     index   |-> [i \in 1..Len(rows) |-> first + i - 1],
     rows    |-> rows]

\* The one-column tables without nulls handed to detect_statistical_outliers:
\* row labels 0..n-1
SeriesTables ==
    {MakeSeriesTable(cells, 0) :
        cells \in UNION {[1..n -> OutlierCells] : n \in 1..MaxSeries}}

\* The one-column tables with nulls: row labels 0..n-1 or 1..n
NullableTables ==
    {MakeSeriesTable(cells, first) :
        cells \in UNION {[1..n -> NullableCells] : n \in 1..MaxSeries}
                  \cup UNION {[1..n -> DecimalCells] : n \in 1..MaxSeries},
        first \in {0, 1}}

\* The two-column tables handed to detect_statistical_outliers
TwoColumnTables ==
    {MakeTwoColumnTable(rows, first) :
        rows \in UNION {[1..n -> [value : {NullCell, Num(0), Num(3)},
                                  close : {Num(0), Num(3)}]]
                        : n \in 1..(MaxSeries - 1)},
        first \in {0, 1}}

Budgets == {TickHours, DefaultMaxAgeHours}

NoResult == [op |-> "none", args |-> <<>>, status |-> "none", ret |-> <<>>]

Returned(op, args, ret) == [op |-> op, args |-> args, status |-> "returned", ret |-> ret]

Raised(op, args, exc) == [op |-> op, args |-> args, status |-> "raised", ret |-> exc]

----------------------------------------------------------------------------
(* The state machine: the caller invokes the operations of the core on its *)
(* tables in any order, while time passes.                                 *)

\* DataQualityChecker() and AnomalyDetector() just constructed
Init ==
    /\ data_dict \in DataDicts
    /\ now = 0
    /\ std_threshold = RInt(DefaultStdThreshold)
    /\ business_rules = BusinessRules
    /\ result = NoResult
    /\ written = <<>>

Tick ==
    /\ now + TickHours <= MaxClock * TickHours
    /\ now' = now + TickHours
    /\ UNCHANGED <<business_rules, data_dict, std_threshold, result, written>>

CallCheckCompleteness ==
    \E n \in DOMAIN data_dict, required_columns \in RequiredLists :
        /\ result' = Returned("check_completeness",
                              [df |-> data_dict[n], required_columns |-> required_columns],
                              CheckCompleteness(data_dict[n], required_columns))
        /\ written' = <<>>
        /\ UNCHANGED <<business_rules, data_dict, now, std_threshold>>

CallCheckFreshness ==
    \E n \in DOMAIN data_dict, max_age_hours \in Budgets :
        \E call \in {CheckFreshness(data_dict[n], "date", max_age_hours, now)} :
            /\ result' = Returned("check_freshness",
                                  [df |-> data_dict[n], max_age_hours |-> max_age_hours,
                                   current_time |-> now],
                                  call.ret)
            /\ data_dict' = [data_dict EXCEPT ![n] = call.df]
            /\ written' = <<>>
            /\ UNCHANGED <<business_rules, now, std_threshold>>

CallCheckDuplicates ==
    \E n \in DOMAIN data_dict :
        /\ result' = Returned("check_duplicates", [df |-> data_dict[n]],
                              CheckDuplicates(data_dict[n]))
        /\ written' = <<>>
        /\ UNCHANGED <<business_rules, data_dict, now, std_threshold>>

\* generate_quality_report: open(report_path, 'w') succeeds or raises OSError
\* (storage_ok), after the loop over the sources has run
CallGenerateQualityReport ==
    \E storage_ok \in BOOLEAN, run \in {QualityRun(data_dict, now)} :
            /\ data_dict' = run.data_dict
            /\ IF storage_ok
               THEN /\ written' = <<ReportFile(run.report)>>
                    /\ result' = Returned("generate_quality_report",
                                          [data_dict |-> data_dict], run.report)
               ELSE /\ written' = <<>>
                    /\ result' = Raised("generate_quality_report",
                                        [data_dict |-> data_dict], "OSError")
            /\ UNCHANGED <<business_rules, now, std_threshold>>

CallDetectStatisticalOutliers ==
    \E n \in DOMAIN data_dict :
        /\ result' = Returned("detect_statistical_outliers",
                              [df |-> data_dict[n], numeric_columns |-> <<"value", "close">>,
                               std_threshold |-> std_threshold],
                              DetectStatisticalOutliers(data_dict[n], <<"value", "close">>,
                                                        std_threshold))
        /\ written' = <<>>
        /\ UNCHANGED <<business_rules, data_dict, now, std_threshold>>

CallDetectTemporalAnomalies ==
    \E n \in DOMAIN data_dict :
        /\ result' = Returned("detect_temporal_anomalies", [df |-> data_dict[n]],
                              DetectTemporalAnomalies(data_dict[n], "date", "value"))
        /\ written' = <<>>
        /\ UNCHANGED <<business_rules, data_dict, now, std_threshold>>

CallDetectBusinessRuleViolations ==
    \E n \in DOMAIN data_dict :
        /\ result' = Returned("detect_business_rule_violations",
                              [df |-> data_dict[n], rules |-> business_rules],
                              DetectBusinessRuleViolations(data_dict[n], business_rules))
        /\ written' = <<>>
        /\ UNCHANGED <<business_rules, data_dict, now, std_threshold>>

CallGenerateAnomalyReport ==
    /\ result' = Returned("generate_anomaly_report", [data_dict |-> data_dict],
                          AnomalyReport(data_dict, now, std_threshold))
    /\ written' = <<>>
    /\ UNCHANGED <<business_rules, data_dict, now, std_threshold>>

\* The report generators on a mapping of sources
Next ==
    \/ Tick
    \/ CallGenerateQualityReport
    \/ CallGenerateAnomalyReport

Spec == Init /\ [][Next]_vars

\* The single checks and detectors on one table
InitChecks ==
    /\ data_dict \in SingleTables
    /\ now = 0
    /\ std_threshold = RInt(DefaultStdThreshold)
    /\ business_rules = BusinessRules
    /\ result = NoResult
    /\ written = <<>>

NextChecks ==
    \/ Tick
    \/ CallCheckCompleteness
    \/ CallCheckFreshness
    \/ CallCheckDuplicates
    \/ CallDetectStatisticalOutliers
    \/ CallDetectTemporalAnomalies
    \/ CallDetectBusinessRuleViolations

SpecChecks == InitChecks /\ [][NextChecks]_vars

\* The dates of the tables handed to the gap detection: instants 0, 1, 2 and,
\* ten hours after 1 and 2, 11 and 12; a missing date; a text that is no date
GapDateCells == {NullCell, BadText, Iso(0), Iso(1), Iso(2), Iso(11), Iso(12)}

\* The rows of the tables handed to the sudden-change detection
ChangeRows == [date : {Iso(0), Iso(1), Iso(2), Iso(12)}, value : {NullCell, Num(1), Num(2)}]

\* The tables handed to the gap detection, rows in any order: any dates with
\* one value
GapTables ==
    {MakeTable([i \in DOMAIN dates |-> [date |-> dates[i], value |-> Num(50)]]) :
        dates \in UNION {[1..n -> GapDateCells] : n \in 1..MaxSeries}}

\* The dates written month first: the last instant of a year and the first two
\* of the next
MdyDateCells == {Mdy(0 - 1), Mdy(0), Mdy(1)}

\* The tables whose dates are all written month first, rows in any order
MdyTables ==
    {MakeTable([i \in DOMAIN dates |-> [date |-> dates[i], value |-> Num(50)]]) :
        dates \in UNION {[1..n -> MdyDateCells] : n \in 1..MaxSeries}}

\* The tables handed to the sudden-change detection, rows in any order:
\* distinct dates with any values
ChangeTables ==
    {MakeTable(rows) :
        rows \in UNION {{r \in [1..n -> ChangeRows] :
                           \A i, j \in 1..n : i # j => r[i].date # r[j].date}
                        : n \in 1..MaxSeries}}

\* The rows of the tables holding several instruments per day
InstrumentRows == [date : {Iso(0), Iso(1)}, value : {NullCell, Num(1), Num(2)}]

\* The tables holding several rows per date, rows in any order
InstrumentTables ==
    {MakeTable(rows) : rows \in UNION {[1..n -> InstrumentRows] : n \in 1..MaxSeries}}

\* A rule definition: the keys it lacks are Absent
Rule(column, type, min, max) == [column |-> column, type |-> type, min |-> min, max |-> max]

\* The rules the caller may pass: two well-formed rules on "value", a range rule
\* on the text column "date", three malformed rules (no max, no type, no
\* column) and a rule on a column the tables do not have
RulePool ==
    {[name |-> "in_range",
      config |-> Rule(Given("value"), Given("range"), Given(0), Given(100))],
     [name |-> "not_null",
      config |-> Rule(Given("value"), Given("not_null"), Absent, Absent)],
     [name |-> "text_range",
      config |-> Rule(Given("date"), Given("range"), Given(0), Given(100))],
     [name |-> "no_max",
      config |-> Rule(Given("value"), Given("range"), Given(0), Absent)],
     [name |-> "no_type",
      config |-> Rule(Given("value"), Absent, Absent, Absent)],
     [name |-> "no_column",
      config |-> Rule(Absent, Given("not_null"), Absent, Absent)],
     [name |-> "absent_column",
      config |-> Rule(Given("close"), Given("not_null"), Absent, Absent)]}

\* The rules mappings: up to MaxRules rules of the pool, in any order
RuleSets ==
    UNION {{r \in [1..n -> RulePool] : \A i, j \in 1..n : i # j => r[i] # r[j]}
           : n \in 0..MaxRules}

RuleValueCells == {NullCell, Num(0 - 5), Num(50), Num(100), Num(150)}

\* The tables handed to detect_business_rule_violations
RuleTables ==
    {EmptyTable} \cup
    UNION {{MakeTable([i \in 1..n |-> [date |-> Iso(0), value |-> cells[i]]]) :
                cells \in [1..n -> RuleValueCells]}
           : n \in 1..MaxRows}

\* AnomalyDetector(std_threshold=t): a new detector, which has made no call yet
Construct ==
    \E t \in Thresholds :
        /\ t # std_threshold
        /\ std_threshold' = t
        /\ result' = NoResult
        /\ written' = <<>>
        /\ UNCHANGED <<business_rules, data_dict, now>>

\* The outlier scan on one table, under every threshold
InitOutliers ==
    /\ \/ data_dict \in {FxName :> t : t \in SeriesTables}
       \/ data_dict \in {FxName :> t : t \in NullableTables}
       \/ data_dict \in {FxName :> t : t \in TwoColumnTables}
    /\ now = 0
    /\ std_threshold = RInt(DefaultStdThreshold)
    /\ business_rules = BusinessRules
    /\ result = NoResult
    /\ written = <<>>

NextOutliers ==
    \/ Construct
    \/ CallDetectStatisticalOutliers

SpecOutliers == InitOutliers /\ [][NextOutliers]_vars

\* The temporal detector on one table
InitTemporal ==
    /\ \/ data_dict \in {FxName :> t : t \in GapTables}
       \/ data_dict \in {FxName :> t : t \in MdyTables}
       \/ data_dict \in {FxName :> t : t \in ChangeTables}
       \/ data_dict \in {FxName :> t : t \in InstrumentTables}
    /\ now = 0
    /\ std_threshold = RInt(DefaultStdThreshold)
    /\ business_rules = BusinessRules
    /\ result = NoResult
    /\ written = <<>>

NextTemporal == CallDetectTemporalAnomalies

SpecTemporal == InitTemporal /\ [][NextTemporal]_vars

\* The rule engine on one table and one rules mapping
InitRules ==
    /\ data_dict \in {FxName :> t : t \in RuleTables}
    /\ now = 0
    /\ std_threshold = RInt(DefaultStdThreshold)
    /\ business_rules \in RuleSets
    /\ result = NoResult
    /\ written = <<>>

NextRules == CallDetectBusinessRuleViolations

SpecRules == InitRules /\ [][NextRules]_vars

----------------------------------------------------------------------------
(* Properties *)

QualityReturned == result.op = "generate_quality_report" /\ result.status = "returned"

AnomalyReturned == result.op = "generate_anomaly_report" /\ result.status = "returned"

InUnitInterval(x) == RLe(RInt(0), x) /\ RLe(x, RInt(1))

\* A report without its timestamp field
WithoutTimestamp(report) == [f \in DOMAIN report \ {"timestamp"} |-> report[f]]

\* C1: the quality report has an entry for every source of the mapping (an
\* empty table giving record_count 0 and quality_score 0.0); the anomaly report
\* has an entry for exactly the sources whose table is not empty.
C1_ReportedSources ==
    /\ QualityReturned =>
          /\ DOMAIN result.ret.sources = DOMAIN result.args.data_dict
          /\ \A n \in DOMAIN result.args.data_dict :
                Empty(result.args.data_dict[n]) =>
                    /\ result.ret.sources[n].record_count = 0
                    /\ result.ret.sources[n].quality_score = RInt(0)
    /\ AnomalyReturned =>
          \A n \in DOMAIN result.args.data_dict :
              (n \in DOMAIN result.ret.sources) <=> Len(result.args.data_dict[n].rows) > 0

C1_Witness ==
    /\ AnomalyReturned
    /\ \E n \in DOMAIN result.args.data_dict : n \notin DOMAIN result.ret.sources
    /\ \E n \in DOMAIN result.args.data_dict : n \in DOMAIN result.ret.sources

\* C2: for a non-empty source quality_score is
\* 0.4 x completeness_score + 0.4 x freshness_score + 0.2 x (1 - duplicate_percentage/100)
\* over the values of the source's own sub-reports (stated times 1000); for an
\* empty source it is 0.0.
C2_WeightedScore ==
    QualityReturned =>
        \A n \in DOMAIN result.ret.sources :
            LET r == result.ret.sources[n]
            IN  IF Empty(result.args.data_dict[n])
                THEN r.quality_score = RInt(0)
                ELSE RMul(r.quality_score, RInt(1000)) =
                         RAdd(RAdd(RMul(RInt(400), r.completeness.completeness_score),
                                   RMul(RInt(400), r.freshness.freshness_score)),
                              RSub(RInt(200), RMul(RInt(2), r.duplicates.duplicate_percentage)))

C2_Witness ==
    /\ QualityReturned
    /\ \E n \in DOMAIN result.ret.sources :
          LET r == result.ret.sources[n]
          IN  /\ r.record_count > 0
              /\ r.completeness.completeness_score # r.freshness.freshness_score
              /\ r.duplicates.duplicate_count > 0
              /\ RLt(RInt(0), r.freshness.freshness_score)
              /\ RLt(r.completeness.completeness_score, RInt(1))

\* C3: overall_score is the arithmetic mean of the quality_score of all the
\* sources of the mapping, empty ones included, and 0.0 for an empty mapping.
C3_OverallIsMean ==
    QualityReturned =>
        LET S == DOMAIN result.args.data_dict
        IN  IF S = {} THEN result.ret.overall_score = RInt(0)
            ELSE RMul(result.ret.overall_score, RInt(Cardinality(S))) =
                     SumOver([n \in S |-> result.ret.sources[n].quality_score], S)

C3_Witness ==
    /\ QualityReturned
    /\ \E n, m \in DOMAIN result.args.data_dict :
          /\ Empty(result.args.data_dict[n])
          /\ RLt(RInt(0), result.ret.sources[m].quality_score)
    /\ RLt(RInt(0), result.ret.overall_score)

\* C4: every score of the quality report lies in [0.0, 1.0]: completeness_score,
\* freshness_score, the quality_score of each source and overall_score.
C4_ScoresInUnitInterval ==
    QualityReturned =>
        /\ InUnitInterval(result.ret.overall_score)
        /\ \A n \in DOMAIN result.ret.sources :
              /\ InUnitInterval(result.ret.sources[n].completeness.completeness_score)
              /\ InUnitInterval(result.ret.sources[n].freshness.freshness_score)
              /\ InUnitInterval(result.ret.sources[n].quality_score)

\* C5: every call of generate_quality_report or generate_anomaly_report returns
\* a report: no exception escapes to the caller.
C5_NoExceptionEscapes ==
    result.op \in {"generate_quality_report", "generate_anomaly_report"} =>
        result.status = "returned"

\* C6: two successive invocations of the same report generator on equal input
\* tables return reports equal in every field but the timestamp, whatever the
\* time elapsed between them.
C6_SameInputSameReport ==
    [][(/\ result.op \in {"generate_quality_report", "generate_anomaly_report"}
        /\ result'.op = result.op
        /\ result.status = "returned" /\ result'.status = "returned"
        /\ result'.args = result.args)
       => WithoutTimestamp(result'.ret) = WithoutTimestamp(result.ret)]_vars

\* C7: no operation changes its input tables: rows, row order, cell values and
\* column types are after the call what they were before it.
C7_InputsUnchanged == [][data_dict' = data_dict]_vars

NullCells(df) ==
    Cardinality({ij \in (1..Len(df.rows)) \X (1..Len(df.columns)) :
                    IsNull(df.rows[ij[1]][df.columns[ij[2]]])})

\* C9: for a non-empty table completeness_score is
\* 1 - (null cells) / (row count x column count), whatever the required columns:
\* a table without nulls scores 1.0 even when a required column is absent, and
\* the absent required columns are exactly those listed in missing_columns.
C9_CompletenessScore ==
    (result.op = "check_completeness" /\ ~Empty(result.args.df)) =>
        LET df == result.args.df
            total == Len(df.rows) * Len(df.columns)
        IN  /\ RMul(result.ret.completeness_score, RInt(total)) = RInt(total - NullCells(df))
            /\ NullCells(df) = 0 => result.ret.completeness_score = RInt(1)
            /\ \A c \in {"date", "rate_type", "value"} :
                  (\E i \in 1..Len(result.ret.missing_columns) :
                       result.ret.missing_columns[i] = c)
                  <=> (/\ \E i \in 1..Len(result.args.required_columns) :
                             result.args.required_columns[i] = c
                       /\ \A j \in 1..Len(df.columns) : df.columns[j] # c)

C9_Witness ==
    /\ result.op = "check_completeness"
    /\ Len(result.args.df.rows) = MaxRows
    /\ result.ret.missing_columns = <<"rate_type">>
    /\ result.ret.completeness_score = RInt(1)

\* The latest instant of the date column of a table, cell by cell
LatestInstant(df) ==
    LET S == {df.rows[i].date.v : i \in {j \in 1..Len(df.rows) : ~IsNull(df.rows[j].date)}}
    IN  CHOOSE m \in S : \A x \in S : x <= m

FreshnessApplies ==
    /\ result.op = "check_freshness"
    /\ Len(result.args.df.rows) > 0
    /\ \E j \in 1..Len(result.args.df.columns) : result.args.df.columns[j] = "date"
    /\ \A i \in 1..Len(result.args.df.rows) : result.args.df.rows[i].date.k # "bad"
    /\ \E i \in 1..Len(result.args.df.rows) : result.args.df.rows[i].date.k # "null"

\* C10: for a non-empty table whose date column parses, with budget B and
\* age = current time - latest timestamp: is_fresh = (age <= B) and
\* freshness_score = max(0, 1 - age / (2B)) (stated times 2B); so the score is
\* 0.5 at age B, 0 from age 2B on, and at least 0.5 whenever is_fresh.
C10_FreshnessFormula ==
    FreshnessApplies =>
        LET B == result.args.max_age_hours
            age == result.args.current_time - LatestInstant(result.args.df)
            score == result.ret.freshness_score
        IN  /\ result.ret.is_fresh = (age <= B)
            /\ result.ret.age_hours = RInt(age)
            /\ RMul(score, RInt(2 * B)) = RInt(IF 2 * B - age > 0 THEN 2 * B - age ELSE 0)
            /\ age = B => score = Rat(1, 2)
            /\ age >= 2 * B => score = RInt(0)
            /\ result.ret.is_fresh => RLe(Rat(1, 2), score)

C10_Witness ==
    /\ FreshnessApplies
    /\ result.args.current_time - LatestInstant(result.args.df) = result.args.max_age_hours
    /\ result.ret.is_fresh
    /\ result.ret.freshness_score = Rat(1, 2)

\* A call of detect_statistical_outliers has returned
OutliersReturned == result.op = "detect_statistical_outliers"

\* The null-dropped series of a column of the table of the last call
Scanned(c) == DropNa(Series(result.args.df, c))

\* Every non-null value of the column is the same number
AllEqual(values) ==
    \A i, j \in 1..Len(values) : CellValue(values[i].cell) = CellValue(values[j].cell)

\* C11: a scanned column whose non-null values are all equal, a single value
\* included, has count 0, percentage 0.0 and empty outlier_values and z_scores,
\* under every threshold.
C11_ZeroVarianceNoOutliers ==
    OutliersReturned =>
        \A c \in DOMAIN result.ret :
            AllEqual(Scanned(c)) => result.ret[c] = NoOutliers

\* The square of the distance of entry i from the exact mean of the series
SquaredDeviation(values, i) ==
    LET d == RSub(CellValue(values[i].cell), Mean(values)) IN RMul(d, d)

\* The exact standard deviation of the series is a positive number
HasSpread(values) == Len(values) >= 2 /\ RLt(RInt(0), Variance(values))

\* Every value lies within t x std of the mean
WithinThreshold(values, t) ==
    \A i \in 1..Len(values) :
        RLe(SquaredDeviation(values, i), RMul(RMul(t, t), Variance(values)))

\* The series is a series with spread whose values are all within t x std of
\* its mean, followed by one value equal to its mean + (t + 1) x std
Injected(values, t) ==
    /\ Len(values) >= 3
    /\ LET base == SubSeq(values, 1, Len(values) - 1)
           x == CellValue(values[Len(values)].cell)
           d == RSub(x, Mean(base))
       IN  /\ HasSpread(base)
           /\ WithinThreshold(base, t)
           /\ RLt(Mean(base), x)
           /\ RMul(d, d) = RMul(RMul(RAdd(t, RInt(1)), RAdd(t, RInt(1))), Variance(base))

\* The entry of column "value" reports the last value of the series
ReportsLast(values) ==
    \E k \in 1..Len(result.ret.value.outlier_values) :
        result.ret.value.outlier_values[k] = CellValue(values[Len(values)].cell)

\* The rows of the series are labelled by their positions 0..n-1
PositionalLabels(values) == \A i \in 1..Len(values) : values[i].label = i - 1

\* The scan of column "value" has returned an entry for a series with spread
ValueScanned ==
    /\ OutliersReturned
    /\ "value" \in DOMAIN result.ret
    /\ HasSpread(Scanned("value"))

\* C12 as stated: a column whose values are all within t x std of the mean has
\* count 0, and once a value mean + (t + 1) x std is added to such a column the
\* scan of the enlarged column has count >= 1 and reports the added value,
\* whatever the length of the column.
C12_InjectedOutlierReported ==
    ValueScanned =>
        LET values == Scanned("value")
            t == result.args.std_threshold
        IN  /\ WithinThreshold(values, t) => result.ret.value.count = 0
            /\ (Injected(values, t) /\ PositionalLabels(values)) =>
                   result.ret.value.count >= 1 /\ ReportsLast(values)

\* C12 as amended: a column whose values are all within t x std of the mean has
\* count 0; the added value is reported exactly when its own Z-score, taken with
\* the mean and std of the enlarged column, exceeds t, and nothing is reported
\* in an enlarged column of N values with (N - 1)^2 <= t^2 x N.
C12_InjectedReportedIffItsZScoreExceeds ==
    ValueScanned =>
        LET values == Scanned("value")
            t == result.args.std_threshold
            N == Len(values)
        IN  /\ WithinThreshold(values, t) => result.ret.value.count = 0
            /\ (Injected(values, t) /\ PositionalLabels(values)) =>
                   /\ ReportsLast(values) <=>
                          RLt(RMul(RMul(t, t), Variance(values)), SquaredDeviation(values, N))
                   /\ RLe(RInt((N - 1) * (N - 1)), RMul(RMul(t, t), RInt(N))) =>
                          result.ret.value.count = 0

C12_Witness ==
    /\ ValueScanned
    /\ Injected(Scanned("value"), result.args.std_threshold)
    /\ PositionalLabels(Scanned("value"))
    /\ result.ret.value.count >= 1
    /\ ReportsLast(Scanned("value"))

\* C13: in every column entry outlier_values and z_scores have `count` elements
\* each, and z_scores[k] is the Z-score |outlier_values[k] - mean| / std of the
\* column (compared here on the squares), strictly above the threshold; also with
\* nulls in the column and with row labels other than 0..n-1.
C13_ZScoresAligned ==
    OutliersReturned =>
        \A c \in DOMAIN result.ret :
            HasSpread(Scanned(c)) =>
                LET entry == result.ret[c]
                    t == result.args.std_threshold
                    zsq(k) == LET d == RSub(entry.outlier_values[k], Mean(Scanned(c)))
                              IN  RDiv(RMul(d, d), Variance(Scanned(c)))
                IN  /\ Len(entry.outlier_values) = entry.count
                    /\ Len(entry.z_scores) = entry.count
                    /\ \A k \in 1..entry.count :
                          /\ entry.z_scores[k] = zsq(k)
                          /\ RLt(RMul(t, t), entry.z_scores[k])

\* C16: a failure on one requested column does not abort the scan: the call
\* returns, the failing column has the zero-outlier entry, and every reported
\* column has the entry it has when it is the only requested column.
C16_ColumnFaultIsolated ==
    OutliersReturned =>
        LET df == result.args.df
            t == result.args.std_threshold
        IN  /\ result.status = "returned"
            /\ DOMAIN result.ret = ScannedColumns(df, result.args.numeric_columns)
            /\ \A c \in DOMAIN result.ret :
                  /\ ColumnFails(Scanned(c), t) => result.ret[c] = NoOutliers
                  /\ result.ret[c] = DetectStatisticalOutliers(df, <<c>>, t)[c]

C16_Witness ==
    /\ OutliersReturned
    /\ DOMAIN result.ret = {"value", "close"}
    /\ ColumnFails(Scanned("value"), result.args.std_threshold)
    /\ result.ret["value"] = NoOutliers
    /\ result.ret["close"].count >= 1

\* C22: every requested column that exists in the table and is numeric has an
\* entry in the result of detect_statistical_outliers; a column whose values
\* are all null has the entry with count 0, percentage 0.0 and empty lists.
C22_NumericColumnsReported ==
    OutliersReturned =>
        LET df == result.args.df
            numeric_columns == result.args.numeric_columns
        IN  \A k \in 1..Len(numeric_columns) :
                LET c == numeric_columns[k]
                IN  (HasColumn(df, c) /\ df.dtypes[c] \in NumericDtypes) =>
                        /\ c \in DOMAIN result.ret
                        /\ Len(Scanned(c)) = 0 => result.ret[c] = NoOutliers

\* A source name holding neither "ecb" nor "market", in any case
OtherSource(n) ==
    /\ ~Contains(<<"e", "c", "b">>, Lower(n))
    /\ ~Contains(<<"m", "a", "r", "k", "e", "t">>, Lower(n))

\* The number of cells of a table
AllCells(df) == Len(df.rows) * Len(df.columns)

\* C23 as stated: for a non-empty source whose name holds neither "ecb" nor
\* "market" no required column is missing and completeness_score is 1.0.
C23_OtherSourceCompletenessOne ==
    QualityReturned =>
        \A n \in DOMAIN result.ret.sources :
            (OtherSource(n) /\ ~Empty(result.args.data_dict[n])) =>
                /\ result.ret.sources[n].completeness.missing_columns = <<>>
                /\ result.ret.sources[n].completeness.completeness_score = RInt(1)

\* C23 amended: for such a source no required column is missing, and
\* completeness_score is 1 - (null cells / all cells) of the table, so it is
\* 1.0 exactly when the table holds no null cell.
C23_OtherSourceCompletenessIsNullShare ==
    QualityReturned =>
        \A n \in DOMAIN result.ret.sources :
            LET df == result.args.data_dict[n]
                completeness == result.ret.sources[n].completeness
            IN  (OtherSource(n) /\ ~Empty(df)) =>
                    /\ completeness.missing_columns = <<>>
                    /\ RMul(completeness.completeness_score, RInt(AllCells(df))) =
                           RInt(AllCells(df) - NullCells(df))
                    /\ completeness.completeness_score = RInt(1) <=> NullCells(df) = 0

C23_Witness ==
    /\ QualityReturned
    /\ \E n \in DOMAIN result.ret.sources :
          /\ OtherSource(n)
          /\ ~Empty(result.args.data_dict[n])
          /\ NullCells(result.args.data_dict[n]) > 0
          /\ result.ret.sources[n].completeness.missing_columns = <<>>
          /\ RLt(result.ret.sources[n].completeness.completeness_score, RInt(1))

\* A call of detect_temporal_anomalies has returned
TemporalReturned == result.op = "detect_temporal_anomalies"

\* The instants of the non-null dates of the table of the last call, ascending
Instants ==
    LET dates == SelectSeq(Column(result.args.df, "date"), LAMBDA c : ~IsNull(c))
        sorted == SortRats([i \in 1..Len(dates) |-> RInt(dates[i].v)])
    IN  [i \in 1..Len(sorted) |-> sorted[i][1]]

\* The k-th interval between consecutive instants
Delta(k) == Instants[k + 1] - Instants[k]

\* The median of all the intervals
MedianDelta ==
    LET sorted == SortRats([k \in 1..(Len(Instants) - 1) |-> RInt(Delta(k))])
        m == Len(sorted)
    IN  IF m % 2 = 1 THEN sorted[(m + 1) \div 2]
        ELSE RDiv(RAdd(sorted[m \div 2], sorted[m \div 2 + 1]), RInt(2))

\* The dates of the table all parse and none is missing
DatesKnown ==
    /\ TemporalReturned
    /\ \A i \in 1..Len(result.args.df.rows) : result.args.df.rows[i].date.k \in {"iso", "ts"}

\* The dates are strictly evenly spaced
EvenlySpaced ==
    /\ Len(Instants) >= 2
    /\ Delta(1) > 0
    /\ \A k \in 1..(Len(Instants) - 1) : Delta(k) = Delta(1)

\* The dates are evenly spaced but for interval j, ten times the common spacing
OneLongInterval(j) ==
    /\ Len(Instants) >= 3
    /\ Delta(j) > 0
    /\ \A k \in 1..(Len(Instants) - 1) : k # j => 10 * Delta(k) = Delta(j)

\* Exactly the gap of interval j is reported
ReportsOnlyGap(j) ==
    result.ret.gaps = <<[index |-> j, gap_duration |-> RInt(Delta(j)),
                         date_before |-> Iso(Instants[j]),
                         date_after |-> Iso(Instants[j + 1])]>>

\* A position is reported as a gap exactly when its interval to the previous row
\* is strictly greater than 3 times the median of all the intervals
GapsAreLongIntervals ==
    \A p \in 1..(Len(Instants) - 1) :
        (\E g \in 1..Len(result.ret.gaps) : result.ret.gaps[g].index = p)
        <=> RLt(RMul(RInt(3), MedianDelta), RInt(Delta(p)))

\* C14: evenly spaced dates give no gap; with exactly one interval of 10 times
\* the common spacing exactly one gap is reported, at the position of the row
\* ending that interval and with the two dates bounding it (stated for four rows
\* or more, where the median interval is the common spacing); a position is a
\* gap iff its interval exceeds 3 times the median interval.
C14_OneLongIntervalOneGap ==
    DatesKnown =>
        /\ EvenlySpaced => result.ret.gaps = <<>>
        /\ \A j \in 1..(Len(Instants) - 1) :
              (OneLongInterval(j) /\ Len(Instants) >= 4) => ReportsOnlyGap(j)
        /\ GapsAreLongIntervals

\* C21: every reported gap lies between two chronologically consecutive rows:
\* its date_before is earlier than its date_after, its duration is positive and
\* no date of the table lies strictly between the two, whatever the row order
\* and the textual form of the dates.
C21_GapsInDateOrder ==
    TemporalReturned =>
        \A g \in 1..Len(result.ret.gaps) :
            LET gap == result.ret.gaps[g]
                dates == Column(result.args.df, "date")
            IN  /\ gap.date_before.v < gap.date_after.v
                /\ RLt(RInt(0), gap.gap_duration)
                /\ \A i \in 1..Len(dates) :
                      ~IsNull(dates[i]) =>
                          ~(gap.date_before.v < dates[i].v /\ dates[i].v < gap.date_after.v)

\* C24: when the median of the intervals between the rows in date order is
\* zero, a position is reported as a gap exactly when its interval is strictly
\* positive, and the number of gaps is the number of distinct dates minus one.
C24_ZeroMedianFlagsEveryStep ==
    (DatesKnown /\ Len(Instants) >= 2 /\ MedianDelta = RInt(0)) =>
        /\ \A p \in 1..(Len(Instants) - 1) :
              (\E g \in 1..Len(result.ret.gaps) : result.ret.gaps[g].index = p)
              <=> Delta(p) > 0
        /\ Len(result.ret.gaps) =
              Cardinality({Instants[i] : i \in 1..Len(Instants)}) - 1

\* C17: detect_temporal_anomalies returns, and its result is either the pair
\* (gaps, sudden_changes) of a run in which nothing failed, or exactly
\* {gaps: [], sudden_changes: []}: after a failure of the date parsing or of the
\* sudden-change computation the gaps already found are not kept.
C17_TemporalFailClosed ==
    TemporalReturned =>
        LET df == result.args.df
        IN  /\ result.status = "returned"
            /\ \/ result.ret = EmptyTemporal
               \/ /\ ~TemporalFails(df, "date", "value")
                  /\ result.ret.gaps = Gaps(SortedParsed(df, "date"), "date")
                  /\ result.ret.sudden_changes =
                         SuddenChangesOf(SortedParsed(df, "date"), "value").list

C17_Witness ==
    /\ TemporalReturned
    /\ CanParse(Column(result.args.df, "date"))
    /\ Gaps(SortedParsed(result.args.df, "date"), "date") # <<>>
    /\ ~SuddenChangesOf(SortedParsed(result.args.df, "date"), "value").ok
    /\ result.ret = EmptyTemporal

\* The date-sorted, null-dropped value series of the table of the last call
SortedValues == DropNa(Series(SortedParsed(result.args.df, "date"), "value"))

\* The absolute relative change at 0-based position p >= 1 of that series
ChangeAt(p) == PctChange(SortedValues, p + 1)

\* The 0-based positions whose change is strictly above the 95th percentile of
\* all the changes
FlaggedPositions ==
    LET n == Len(SortedValues)
    IN  IF n < 2 THEN {}
        ELSE {p \in 1..(n - 1) :
                 RLt(Quantile95([q \in 1..(n - 1) |-> ChangeAt(q)]), ChangeAt(p))}

\* The entry the specification describes for a flagged position p
ChangeEntry(p) ==
    [index |-> p,
     percentage_change |-> RMul(ChangeAt(p), RInt(100)),
     value_before |-> CellValue(SortedValues[p].cell),
     value_after |-> CellValue(SortedValues[p + 1].cell)]

\* C20: every reported sudden change carries the position of the flagged value
\* in the date-sorted, null-dropped value series, the value at that position,
\* the value before it and 100 x |after - before| / |before|, and a change is
\* reported iff it is strictly above the 95th percentile of all changes; for rows
\* in any order and value columns with nulls.
C20_SuddenChangePositions ==
    DatesKnown =>
        /\ \A k \in 1..Len(result.ret.sudden_changes) :
              \E p \in FlaggedPositions : result.ret.sudden_changes[k] = ChangeEntry(p)
        /\ \A p \in FlaggedPositions :
              \E k \in 1..Len(result.ret.sudden_changes) :
                  result.ret.sudden_changes[k] = ChangeEntry(p)

\* A call of detect_business_rule_violations has returned
RulesReturned == result.op = "detect_business_rule_violations"

\* The rows of the table whose value in the column satisfies the predicate
CountRows(df, column, Test(_)) ==
    Cardinality({i \in 1..Len(df.rows) : Test(df.rows[i][column])})

\* C15: on a table with the rule's column, a range rule with min and max has
\* count = the rows whose value is < min or > max, a not_null rule has count =
\* the rows whose value is null, and percentage = count / row count x 100.
C15_RuleCounts ==
    RulesReturned =>
        LET df == result.args.df
        IN  \A i \in 1..Len(result.args.rules) :
                LET rule == result.args.rules[i].config
                    name == result.args.rules[i].name
                    Outside(c) == /\ c.k = "num"
                                  /\ (c.v < rule.min[1] \/ c.v > rule.max[1])
                IN  (/\ rule.column = Given("value")
                     /\ HasColumn(df, "value")
                     /\ Len(df.rows) > 0) =>
                        /\ (rule.type = Given("range") /\ rule.min # Absent /\ rule.max # Absent)
                               => /\ name \in DOMAIN result.ret
                                  /\ result.ret[name].type = "range_violation"
                                  /\ result.ret[name].count = CountRows(df, "value", Outside)
                                  /\ result.ret[name].percentage =
                                         Rat(100 * CountRows(df, "value", Outside), Len(df.rows))
                        /\ rule.type = Given("not_null")
                               => /\ name \in DOMAIN result.ret
                                  /\ result.ret[name].type = "null_violation"
                                  /\ result.ret[name].count = CountRows(df, "value", IsNull)
                                  /\ result.ret[name].percentage =
                                         Rat(100 * CountRows(df, "value", IsNull), Len(df.rows))

C15_Witness ==
    /\ RulesReturned
    /\ result.args.df.rows = <<[date |-> Iso(0), value |-> Num(150)],
                               [date |-> Iso(0), value |-> NullCell]>>
    /\ {"in_range", "not_null"} \subseteq DOMAIN result.ret
    /\ result.ret["in_range"].count = 1
    /\ result.ret["not_null"].count = 1

\* The names of the rules of the mapping that satisfy the predicate
RuleNames(Test(_)) ==
    {result.args.rules[i].name :
        i \in {j \in 1..Len(result.args.rules) : Test(result.args.rules[j].config)}}

\* The rules of the last call in reverse order
ReversedRules ==
    [i \in 1..Len(result.args.rules) |->
        result.args.rules[Len(result.args.rules) + 1 - i]]

\* C18: a rule whose evaluation raises gets the error marker, and every other
\* rule has the result it has when it is the only rule of the mapping, whatever
\* the order of the rules.
C18_RuleFaultIsolated ==
    RulesReturned =>
        LET df == result.args.df
            Fails(rule) == RuleFails(df, rule)
        IN  /\ \A name \in RuleNames(Fails) :
                  /\ name \in DOMAIN result.ret
                  /\ result.ret[name].type = "error"
            /\ \A i \in 1..Len(result.args.rules) :
                  LET item == result.args.rules[i]
                      alone == DetectBusinessRuleViolations(df, <<item>>)
                  IN  ~Fails(item.config) =>
                          /\ (item.name \in DOMAIN result.ret) <=> (item.name \in DOMAIN alone)
                          /\ item.name \in DOMAIN alone => result.ret[item.name] = alone[item.name]
            /\ result.ret = DetectBusinessRuleViolations(df, ReversedRules)

C18_Witness ==
    /\ RulesReturned
    /\ Len(result.args.rules) = MaxRules
    /\ RuleFails(result.args.df, result.args.rules[1].config)
    /\ result.ret[result.args.rules[1].name].type = "error"
    /\ \E i \in 2..MaxRules :
          /\ result.args.rules[i].name \in DOMAIN result.ret
          /\ result.ret[result.args.rules[i].name].type = "range_violation"
          /\ result.ret[result.args.rules[i].name].count > 0

\* The rule definition lacks a key it needs: column, type, or a bound of a range
Malformed(rule) ==
    \/ rule.column = Absent
    \/ rule.type = Absent
    \/ rule.type = Given("range") /\ (rule.min = Absent \/ rule.max = Absent)

\* C19: a malformed rule definition (a range rule without min or max, a rule
\* without type or column) has an error marker as its result: it is neither
\* reported with a zero count nor left out of the output (stated for tables that
\* have the column "value" the rules of the pool name).
C19_MalformedRuleMarked ==
    (RulesReturned /\ HasColumn(result.args.df, "value")) =>
        \A name \in RuleNames(Malformed) :
            /\ name \in DOMAIN result.ret
            /\ result.ret[name].type = "error"

====
